---- MODULE Spec2Model ----
(***************************************************************************)
(* Model of app/static/script.js: the housing-price page's two event       *)
(* handlers (form submit -> /predict_price, curve click -> /feature_curve) *)
(* and renderChart, as a state machine over the page's elements, the       *)
(* priceChart slot and the handler invocations suspended at an await.      *)
(***************************************************************************)
EXTENDS Integers, Sequences, FiniteSets, TLC

\* ------------------------------------------------------------------ bounds
\* Handler invocations (submits plus curve clicks) in one behaviour.
MaxRequests == 2
\* Longest x_values / prices sequence of a curve response given to renderChart.
MaxLen == 2
\* Largest numerator (in eighths) of a number in such a sequence.
MaxEighths == 4

\* ------------------------------------------------------- JavaScript values
\* Numbers are exact rationals num/den in lowest terms with den > 0; NaN is
\* the one number with den = 0.
RECURSIVE Gcd(_, _)
Gcd(a, b) == IF b = 0 THEN a ELSE Gcd(b, a % b)

Abs(n) == IF n < 0 THEN -n ELSE n

Num(n, d) ==
    LET g == Gcd(Abs(n), d)
    IN  [type |-> "number", num |-> n \div g, den |-> d \div g]

NaN == [type |-> "number", num |-> 0, den |-> 0]

JsonNull == [type |-> "null"]

Undefined == [type |-> "undefined"]

Str(s) == [type |-> "string", s |-> s]

Arr(items) == [type |-> "array", items |-> items]

Obj(props) == [type |-> "object", props |-> props]

IsNaN(v) == v.type = "number" /\ v.den = 0

\* json.key : a property read. Reading a property of null throws (the caller
\* tests Throws first); a key the object lacks reads as undefined.
PropThrows(json) == json.type \in {"null", "undefined"}

Prop(json, key) ==
    IF json.type = "object" /\ key \in DOMAIN json.props
    THEN json.props[key]
    ELSE Undefined

\* JSON.stringify of a number: a finite number is written as itself, NaN as
\* null.
StringifyNumber(v) == IF IsNaN(v) THEN JsonNull ELSE v

\* ------------------------------------------------------- parseFloat, parseInt
\* The text of an input is a sequence of one-character strings.
DigitChars == <<"0", "1", "2", "3", "4", "5", "6", "7", "8", "9">>

IsDigit(c) == \E i \in 1..10 : DigitChars[i] = c

DigitValue(c) == (CHOOSE i \in 1..10 : DigitChars[i] = c) - 1

IsSpace(c) == c = " "

Drop(s, k) == SubSeq(s, k + 1, Len(s))

\* s without its leading blanks.
TrimStart(s) ==
    Drop(s, Cardinality({i \in 1..Len(s) : \A j \in 1..i : IsSpace(s[j])}))

\* Length of the longest prefix of s made of digits.
DigitRun(s) == Cardinality({i \in 1..Len(s) : \A j \in 1..i : IsDigit(s[j])})

\* Value of the first n elements of s, all digits, read in base ten.
RECURSIVE DigitsValueTo(_, _)
DigitsValueTo(s, n) ==
    IF n = 0 THEN 0 ELSE 10 * DigitsValueTo(s, n - 1) + DigitValue(s[n])

DigitsValue(s) == DigitsValueTo(s, Len(s))

RECURSIVE Pow10(_)
Pow10(k) == IF k = 0 THEN 1 ELSE 10 * Pow10(k - 1)

\* parseFloat(text): leading blanks are skipped, then the longest prefix that
\* is a decimal literal (sign, digits, optional point and digits) is read and
\* the rest ignored; NaN when that prefix holds no digit.
parseFloat(text) ==
    LET t     == TrimStart(text)
        neg   == t # << >> /\ Head(t) = "-"
        u     == IF t # << >> /\ Head(t) \in {"-", "+"} THEN Tail(t) ELSE t
        ni    == DigitRun(u)
        afterInt == Drop(u, ni)
        hasPoint == afterInt # << >> /\ Head(afterInt) = "."
        fracSrc  == IF hasPoint THEN Tail(afterInt) ELSE << >>
        nf    == DigitRun(fracSrc)
        mant  == DigitsValue(SubSeq(u, 1, ni)) * Pow10(nf)
                   + DigitsValue(SubSeq(fracSrc, 1, nf))
    IN  IF ni = 0 /\ nf = 0 THEN NaN
        ELSE Num(IF neg THEN -mant ELSE mant, Pow10(nf))

\* parseInt(text, 10): leading blanks, a sign, then the longest run of
\* digits; NaN when there is none.
parseInt(text) ==
    LET t   == TrimStart(text)
        neg == t # << >> /\ Head(t) = "-"
        u   == IF t # << >> /\ Head(t) \in {"-", "+"} THEN Tail(t) ELSE t
        ni  == DigitRun(u)
        v   == DigitsValue(SubSeq(u, 1, ni))
    IN  IF ni = 0 THEN NaN ELSE Num(IF neg THEN -v ELSE v, 1)

\* ------------------------------------------------------------ page controls
\* The eight inputs getBaseInput reads, in the order it reads them.
BaseFields ==
    {"med_inc", "house_age", "ave_rooms", "ave_bedrooms",
     "population", "ave_occup", "latitude", "longitude"}

\* The inputs only the curve handler reads.
CurveFields == {"min_value", "max_value", "num_points"}

Controls == BaseFields \cup CurveFields \cup {"feature_name"}

\* Texts a user may leave in a numeric input.
Texts ==
    { << >>,                    \* blank
      <<"2", ".", "5">>,
      <<"4", "0">>,
      <<"-", "3">>,
      <<".", "5">>,
      <<" ", "4">>,
      <<"7", "x">>,             \* a numeric prefix followed by junk
      <<"a", "b", "c">>,
      <<".">>,
      <<"-">> }

FormValid ==
    [c \in Controls |->
        CASE c = "feature_name" -> "med_inc"
          [] c = "num_points"   -> <<"4", "0">>
          [] c = "min_value"    -> <<".", "5">>
          [] c = "latitude"     -> <<"-", "3">>
          [] OTHER              -> <<"2", ".", "5">>]

FormMixed ==
    [c \in Controls |->
        CASE c = "feature_name" -> "latitude"
          [] c = "med_inc"      -> <<"7", "x">>
          [] c = "house_age"    -> <<"a", "b", "c">>
          [] c = "population"   -> <<" ", "4">>
          [] c = "longitude"    -> <<"-">>
          [] c = "max_value"    -> <<".">>
          [] c = "num_points"   -> <<"2", ".", "5">>
          [] OTHER              -> <<"4", "0">>]

\* Fillings of the form the page model moves between.
Forms == {FormValid, FormMixed}

\* ---------------------------------------------------------------- responses
NoBody == [type |-> "none"]

\* A body that is not JSON: the plain text of an error, or garbage.
TextBody(s) == [type |-> "text", s |-> s]

\* Messages of the exceptions the runtime itself raises.
NetworkMessage == "Failed to fetch"

SyntaxMessage == "Unexpected token in JSON"

TypeErrorMessage == "Cannot read properties of undefined"

PredictJsons ==
    { Obj([predicted_price_formatted |-> Str("$250,000")]),
      Obj([predicted_price_formatted |-> Str("$1")]),
      Obj([detail |-> Str("no price")]),
      JsonNull }

ErrorTexts == {"", "bad input"}

\* Bodies a success response from /predict_price may carry.
PredictBodies == PredictJsons \cup {TextBody("<html>")}

CurveJsons ==
    { Obj([feature_name |-> Str("med_inc"),
           x_values |-> Arr(<<Num(1, 1), Num(2, 1)>>),
           prices |-> Arr(<<Num(100000, 1), Num(200000, 1)>>)]),
      Obj([feature_name |-> Str("latitude"),
           x_values |-> Arr(<<Num(1, 8)>>),
           prices |-> Arr(<<Num(2500, 1)>>)]),
      Obj([feature_name |-> Str("med_inc"),
           prices |-> Arr(<<Num(100000, 1)>>)]),
      Obj([feature_name |-> Str("med_inc"),
           x_values |-> Arr(<<Num(1, 1)>>)]),
      JsonNull }

\* Bodies a success response from /feature_curve may carry.
CurveBodies == CurveJsons \cup {TextBody("<html>")}

\* -------------------------------------------------------------------- state
VARIABLES
    fields,         \* the .value of every control
    errorHidden,    \* errorBox.classList has "hidden"
    errorText,      \* errorBox.textContent
    resultHidden,   \* resultBox.classList has "hidden"
    predictedText,  \* predictedPrice.textContent
    priceChart,     \* the slot: 0 for null, else an index into charts
    charts,         \* every Chart constructed, in order of construction
    reqs,           \* every handler invocation, in order of start
    posts           \* every fetch() issued, in order

vars ==
    <<fields, errorHidden, errorText, resultHidden, predictedText,
      priceChart, charts, reqs, posts>>

Invocations == 1..Len(reqs)

\* ------------------------------------------------------------- getBaseInput
\* parseFloat and parseInt on the texts of the model, computed once.
FloatOf == [t \in Texts |-> parseFloat(t)]

IntOf == [t \in Texts |-> parseInt(t)]

\* Faulty variant of getBaseInput: a blank field is read as 0 (what Number()
\* or "|| 0" would do) instead of NaN.
getBaseInputBlankAsZero(f) ==
    [k \in BaseFields |->
        IF TrimStart(f[k]) = << >> THEN Num(0, 1) ELSE FloatOf[f[k]]]

getBaseInput(f) == [k \in BaseFields |-> FloatOf[f[k]]]

\* JSON.stringify(baseInput), as the JSON value the text denotes.
StringifyBase(base) == [k \in BaseFields |-> StringifyNumber(base[k])]

PredictBody(f) == StringifyBase(getBaseInput(f))

CurveBody(f) ==
    [feature_name |-> Str(f["feature_name"]),
     base         |-> StringifyBase(getBaseInput(f)),
     min_value    |-> StringifyNumber(FloatOf[f["min_value"]]),
     max_value    |-> StringifyNumber(FloatOf[f["max_value"]]),
     num_points   |-> StringifyNumber(IntOf[f["num_points"]])]

\* ------------------------------------------------------------- renderChart
\* String(v) as a template literal interpolates it.
ToText(v) ==
    CASE v.type = "string"    -> v.s
      [] v.type = "undefined" -> "undefined"
      [] v.type = "null"      -> "null"
      [] OTHER                -> "[object]"

\* The decimal digits of a natural number, as characters.
RECURSIVE NatChars(_)
NatChars(n) ==
    IF n < 10 THEN <<DigitChars[n + 1]>>
    ELSE Append(NatChars(n \div 10), DigitChars[(n % 10) + 1])

\* Faulty variant of toFixed2: the third decimal is cut off, not rounded.
toFixed2Truncating(v) ==
    LET n == (100 * Abs(v.num)) \div v.den
    IN  (IF v.num < 0 THEN <<"-">> ELSE << >>)
          \o NatChars(n \div 100)
          \o <<".", DigitChars[((n % 100) \div 10) + 1], DigitChars[(n % 10) + 1]>>

\* v.toFixed(2): the integer n with n/100 nearest to |v|, the larger one on
\* a tie, written with two decimals and the sign of v.
toFixed2(v) ==
    LET n == (200 * Abs(v.num) + v.den) \div (2 * v.den)
    IN  (IF v.num < 0 THEN <<"-">> ELSE << >>)
          \o NatChars(n \div 100)
          \o <<".", DigitChars[((n % 100) \div 10) + 1], DigitChars[(n % 10) + 1]>>

\* p / 1000
DivideBy1000(p) == Num(p.num, p.den * 1000)

IsNumberArray(a) ==
    a.type = "array" /\ \A i \in 1..Len(a.items) : a.items[i].type = "number"

\* Lines 99-101 throw a TypeError when x_values or prices cannot be mapped.
renderChartThrows(curveData) ==
    \/ PropThrows(curveData)
    \/ ~IsNumberArray(Prop(curveData, "x_values"))
    \/ Prop(curveData, "prices").type # "array"

ChartLabels(curveData) ==
    LET xs == Prop(curveData, "x_values").items
    IN  [i \in 1..Len(xs) |-> toFixed2(xs[i])]

ChartData(curveData) ==
    LET ps == Prop(curveData, "prices").items
    IN  [i \in 1..Len(ps) |-> DivideBy1000(ps[i])]

\* The configuration object handed to new Chart.
ChartConfig(curveData) ==
    [type    |-> "line",
     labels  |-> ChartLabels(curveData),
     label   |-> "Precio (miles de $) vs "
                   \o ToText(Prop(curveData, "feature_name")),
     data    |-> ChartData(curveData),
     fill    |-> FALSE,
     xTitle  |-> ToText(Prop(curveData, "feature_name")),
     yTitle  |-> "Precio estimado (miles de $)"]

\* Faulty variant of DestroyCurrent: the chart in the slot is left alive.
DestroyNothing == charts

\* The charts after priceChart.destroy(), when the slot holds one.
DestroyCurrent ==
    IF priceChart # 0
    THEN [charts EXCEPT ![priceChart].destroyed = TRUE]
    ELSE charts

\* renderChart(curveData) called by invocation r, when it does not throw.
\* by and source record the caller and the argument (history only).
renderChart(r, curveData) ==
    /\ charts' = Append(DestroyCurrent,
                        [config |-> ChartConfig(curveData),
                         destroyed |-> FALSE,
                         by |-> r,
                         source |-> curveData])
    /\ priceChart' = Len(charts) + 1

\* ------------------------------------------------------------------ handlers
Init ==
    /\ fields \in Forms
    /\ errorHidden = TRUE
    /\ errorText = ""
    /\ resultHidden = TRUE
    /\ predictedText = ""
    /\ priceChart = 0
    /\ charts = << >>
    /\ reqs = << >>
    /\ posts = << >>

\* The user retypes the form between two events.
EditForm ==
    /\ \E f \in Forms : f # fields /\ fields' = f
    /\ UNCHANGED <<errorHidden, errorText, resultHidden, predictedText,
                   priceChart, charts, reqs, posts>>

\* A handler invocation suspended at its fetch. History only (the code keeps
\* no copy): form records the controls as they were when the handler ran,
\* cause and got how the request ended and the body the handler was given.
NewInvocation(kind) ==
    [kind |-> kind, pc |-> "fetch", cause |-> "pending", got |-> NoBody,
     form |-> fields]

Fetch(url, body) ==
    posts' = Append(posts, [inv |-> Len(reqs) + 1, url |-> url,
                            method |-> "POST", body |-> body])

Finish(r, cause, got) ==
    reqs' = [reqs EXCEPT ![r].pc = "done", ![r].cause = cause, ![r].got = got]

\* Faulty variant of Submit: only the error region is hidden, as the click
\* listener does.
SubmitHidingErrorOnly ==
    /\ Len(reqs) < MaxRequests
    /\ errorHidden' = TRUE
    /\ reqs' = Append(reqs, NewInvocation("submit"))
    /\ Fetch("/predict_price", PredictBody(fields))
    /\ UNCHANGED <<fields, errorText, resultHidden, predictedText, priceChart,
                   charts>>

\* The form's submit listener up to its first await.
Submit ==
    /\ Len(reqs) < MaxRequests
    /\ errorHidden' = TRUE
    /\ resultHidden' = TRUE
    /\ reqs' = Append(reqs, NewInvocation("submit"))
    /\ Fetch("/predict_price", PredictBody(fields))
    /\ UNCHANGED <<fields, errorText, predictedText, priceChart, charts>>

\* Faulty variant of SubmitCatch: the failed request is sent once more.
SubmitCatchRetrying(r, message, cause, got) ==
    /\ errorText' = message
    /\ errorHidden' = FALSE
    /\ Finish(r, cause, got)
    /\ posts' = Append(posts, [inv |-> r, url |-> "/predict_price",
                               method |-> "POST", body |-> PredictBody(fields)])
    /\ UNCHANGED <<fields, resultHidden, predictedText, priceChart, charts>>

\* Faulty variant of SubmitCatch: the exception escapes the handler and
\* nothing is shown.
SubmitCatchSilent(r, message, cause, got) ==
    /\ Finish(r, cause, got)
    /\ UNCHANGED <<fields, errorHidden, errorText, resultHidden, predictedText,
                   priceChart, charts, posts>>

\* The catch block of the submit listener.
SubmitCatch(r, message, cause, got) ==
    /\ errorText' = message
    /\ errorHidden' = FALSE
    /\ Finish(r, cause, got)
    /\ UNCHANGED <<fields, resultHidden, predictedText, priceChart, charts, posts>>

\* fetch() rejects.
SubmitFetchReject(r) ==
    /\ reqs[r].kind = "submit" /\ reqs[r].pc = "fetch"
    /\ SubmitCatch(r, NetworkMessage, "network", NoBody)

\* fetch() resolves with a response; the handler goes on to read its body.
SubmitFetchResolve(r, ok) ==
    /\ reqs[r].kind = "submit" /\ reqs[r].pc = "fetch"
    /\ reqs' = [reqs EXCEPT ![r].pc = IF ok THEN "json" ELSE "text"]
    /\ UNCHANGED <<fields, errorHidden, errorText, resultHidden,
                   predictedText, priceChart, charts, posts>>

\* response.text() resolves and the handler throws.
SubmitTextResolve(r, text) ==
    /\ reqs[r].kind = "submit" /\ reqs[r].pc = "text"
    /\ SubmitCatch(r,
                   IF text # "" THEN text
                   ELSE "Error en la llamada a /predict_price",
                   "status", TextBody(text))

\* response.text() or response.json() rejects because the connection broke.
SubmitBodyReject(r) ==
    /\ reqs[r].kind = "submit" /\ reqs[r].pc \in {"text", "json"}
    /\ SubmitCatch(r, NetworkMessage, "network", NoBody)

\* Faulty variant of SubmitShow: a response is dropped when a later
\* submission exists (a sequencing token the code does not have).
SubmitShowIfLatest(r, json) ==
    LET cause == IF Prop(json, "predicted_price_formatted") = Undefined
                 THEN "missing" ELSE "success"
    IN  IF PropThrows(json)
        THEN SubmitCatch(r, TypeErrorMessage, "missing", json)
        ELSE IF \E q \in Invocations : q > r /\ reqs[q].kind = "submit"
        THEN /\ Finish(r, cause, json)
             /\ UNCHANGED <<fields, errorHidden, errorText, resultHidden,
                            predictedText, priceChart, charts, posts>>
        ELSE /\ predictedText' = "Precio estimado: "
                                   \o ToText(Prop(json, "predicted_price_formatted"))
             /\ resultHidden' = FALSE
             /\ Finish(r, cause, json)
             /\ UNCHANGED <<fields, errorHidden, errorText, priceChart, charts,
                            posts>>

\* Lines 47-48, given the parsed body.
SubmitShow(r, json) ==
    IF PropThrows(json)
    THEN SubmitCatch(r, TypeErrorMessage, "missing", json)
    ELSE /\ predictedText' = "Precio estimado: "
                               \o ToText(Prop(json, "predicted_price_formatted"))
         /\ resultHidden' = FALSE
         /\ Finish(r,
                   IF Prop(json, "predicted_price_formatted") = Undefined
                   THEN "missing" ELSE "success",
                   json)
         /\ UNCHANGED <<fields, errorHidden, errorText, priceChart, charts, posts>>

\* response.json() settles.
SubmitJsonSettle(r, body) ==
    /\ reqs[r].kind = "submit" /\ reqs[r].pc = "json"
    /\ IF body.type = "text"
       THEN SubmitCatch(r, SyntaxMessage, "malformed", body)
       ELSE SubmitShow(r, body)

\* Faulty variant of ClickCurve: the click also hides the result region, as
\* the submit listener does.
ClickCurveHidingResult ==
    /\ Len(reqs) < MaxRequests
    /\ errorHidden' = TRUE
    /\ resultHidden' = TRUE
    /\ reqs' = Append(reqs, NewInvocation("curve"))
    /\ Fetch("/feature_curve", CurveBody(fields))
    /\ UNCHANGED <<fields, errorText, predictedText, priceChart, charts>>

\* The curve button's click listener up to its first await.
ClickCurve ==
    /\ Len(reqs) < MaxRequests
    /\ errorHidden' = TRUE
    /\ reqs' = Append(reqs, NewInvocation("curve"))
    /\ Fetch("/feature_curve", CurveBody(fields))
    /\ UNCHANGED <<fields, errorText, resultHidden, predictedText,
                   priceChart, charts>>

\* Faulty variant of CurveCatch: a message already on display is kept (first
\* writer wins).
CurveCatchKeepFirst(r, message, cause, got) ==
    /\ errorText' = IF errorHidden THEN message ELSE errorText
    /\ errorHidden' = FALSE
    /\ Finish(r, cause, got)
    /\ UNCHANGED <<fields, resultHidden, predictedText, priceChart, charts, posts>>

\* The catch block of the click listener.
CurveCatch(r, message, cause, got) ==
    /\ errorText' = message
    /\ errorHidden' = FALSE
    /\ Finish(r, cause, got)
    /\ UNCHANGED <<fields, resultHidden, predictedText, priceChart, charts, posts>>

CurveFetchReject(r) ==
    /\ reqs[r].kind = "curve" /\ reqs[r].pc = "fetch"
    /\ CurveCatch(r, NetworkMessage, "network", NoBody)

CurveFetchResolve(r, ok) ==
    /\ reqs[r].kind = "curve" /\ reqs[r].pc = "fetch"
    /\ reqs' = [reqs EXCEPT ![r].pc = IF ok THEN "json" ELSE "text"]
    /\ UNCHANGED <<fields, errorHidden, errorText, resultHidden,
                   predictedText, priceChart, charts, posts>>

\* Faulty variant of CurveTextResolve: the fallback text names the other
\* endpoint.
CurveTextResolveCopied(r, text) ==
    /\ reqs[r].kind = "curve" /\ reqs[r].pc = "text"
    /\ CurveCatch(r,
                  IF text # "" THEN text
                  ELSE "Error en la llamada a /predict_price",
                  "status", TextBody(text))

CurveTextResolve(r, text) ==
    /\ reqs[r].kind = "curve" /\ reqs[r].pc = "text"
    /\ CurveCatch(r,
                  IF text # "" THEN text
                  ELSE "Error en la llamada a /feature_curve",
                  "status", TextBody(text))

CurveBodyReject(r) ==
    /\ reqs[r].kind = "curve" /\ reqs[r].pc \in {"text", "json"}
    /\ CurveCatch(r, NetworkMessage, "network", NoBody)

\* Faulty variant of CurveShow: the chart in the slot is destroyed before
\* the response is read, so a response renderChart cannot map still costs
\* the page its chart.
CurveShowDestroyFirst(r, json) ==
    IF renderChartThrows(json)
    THEN /\ errorText' = TypeErrorMessage
         /\ errorHidden' = FALSE
         /\ charts' = DestroyCurrent
         /\ Finish(r, "missing", json)
         /\ UNCHANGED <<fields, resultHidden, predictedText, priceChart, posts>>
    ELSE /\ renderChart(r, json)
         /\ Finish(r, "success", json)
         /\ UNCHANGED <<fields, errorHidden, errorText, resultHidden,
                        predictedText, posts>>

\* Line 88, given the parsed body.
CurveShow(r, json) ==
    IF renderChartThrows(json)
    THEN CurveCatch(r, TypeErrorMessage, "missing", json)
    ELSE /\ renderChart(r, json)
         /\ Finish(r, "success", json)
         /\ UNCHANGED <<fields, errorHidden, errorText, resultHidden,
                        predictedText, posts>>

CurveJsonSettle(r, body) ==
    /\ reqs[r].kind = "curve" /\ reqs[r].pc = "json"
    /\ IF body.type = "text"
       THEN CurveCatch(r, SyntaxMessage, "malformed", body)
       ELSE CurveShow(r, body)

\* The page while the user leaves the form's text alone.
Next ==
    \/ Submit
    \/ ClickCurve
    \/ \E r \in Invocations : SubmitFetchReject(r)
    \/ \E r \in Invocations : \E ok \in BOOLEAN : SubmitFetchResolve(r, ok)
    \/ \E r \in Invocations : \E text \in ErrorTexts : SubmitTextResolve(r, text)
    \/ \E r \in Invocations : SubmitBodyReject(r)
    \/ \E r \in Invocations : \E body \in PredictBodies : SubmitJsonSettle(r, body)
    \/ \E r \in Invocations : CurveFetchReject(r)
    \/ \E r \in Invocations : \E ok \in BOOLEAN : CurveFetchResolve(r, ok)
    \/ \E r \in Invocations : \E text \in ErrorTexts : CurveTextResolve(r, text)
    \/ \E r \in Invocations : CurveBodyReject(r)
    \/ \E r \in Invocations : \E body \in CurveBodies : CurveJsonSettle(r, body)

Spec == Init /\ [][Next]_vars

\* The page while the user also retypes the form between events.
NextForm == EditForm \/ Next

SpecForm == Init /\ [][NextForm]_vars

\* Every pending promise settles: the network answers or fails each fetch
\* and each body read.
Settle(r) ==
    /\ r \in Invocations
    /\ \/ SubmitFetchReject(r)
       \/ \E ok \in BOOLEAN : SubmitFetchResolve(r, ok)
       \/ \E text \in ErrorTexts : SubmitTextResolve(r, text)
       \/ SubmitBodyReject(r)
       \/ \E body \in PredictBodies : SubmitJsonSettle(r, body)
       \/ CurveFetchReject(r)
       \/ \E ok \in BOOLEAN : CurveFetchResolve(r, ok)
       \/ \E text \in ErrorTexts : CurveTextResolve(r, text)
       \/ CurveBodyReject(r)
       \/ \E body \in CurveBodies : CurveJsonSettle(r, body)

FairSpec == Spec /\ \A r \in 1..MaxRequests : WF_vars(Settle(r))

\* ------------------------------------------- the handlers' synchronous part
\* Every subset of the numeric controls left blank or unparseable, the others
\* holding a number.
NumericControls == BaseFields \cup CurveFields

BadTexts == { << >>, <<"a", "b", "c">>, <<".">>, <<"-">> }

InputForms ==
    { [c \in Controls |->
          IF c = "feature_name" THEN good[c]
          ELSE IF c \in bad THEN text ELSE good[c]] :
      bad \in SUBSET NumericControls, text \in BadTexts,
      good \in {FormValid, FormMixed} }

InitInput ==
    /\ fields \in InputForms
    /\ errorHidden = TRUE
    /\ errorText = ""
    /\ resultHidden = TRUE
    /\ predictedText = ""
    /\ priceChart = 0
    /\ charts = << >>
    /\ reqs = << >>
    /\ posts = << >>

NextInput == Submit \/ ClickCurve

SpecInput == InitInput /\ [][NextInput]_vars

\* ------------------------------------------------------ renderChart alone
\* Numbers a double holds exactly (eighths), so that toFixed's ties are the
\* decimal ties, and two numbers that are no tie.
XNumbers ==
    { Num(k, 8) : k \in -1..MaxEighths }
      \cup { Num(1, 1), Num(2, 1), Num(25, 2), Num(1006, 1000), Num(-1004, 1000) }

PriceNumbers == { Num(100000, 1), Num(200000, 1), Num(2500, 1) }

SeqsUpTo(S, n) == UNION { [1..k -> S] : k \in 0..n }

RenderBody(xs, ps) ==
    Obj([feature_name |-> Str("med_inc"), x_values |-> Arr(xs), prices |-> Arr(ps)])

\* The page with one curve request whose response headers have arrived.
InitRender ==
    /\ fields = FormValid
    /\ errorHidden = TRUE
    /\ errorText = ""
    /\ resultHidden = TRUE
    /\ predictedText = ""
    /\ priceChart = 0
    /\ charts = << >>
    /\ reqs = << [kind |-> "curve", pc |-> "json", cause |-> "pending",
                  got |-> NoBody, form |-> FormValid] >>
    /\ posts = << [inv |-> 1, url |-> "/feature_curve", method |-> "POST",
                   body |-> CurveBody(FormValid)] >>

NextRender ==
    \E r \in {i \in Invocations : reqs[i].pc = "json"} :
        \E xs \in SeqsUpTo(XNumbers, MaxLen), ps \in SeqsUpTo(PriceNumbers, MaxLen) :
            CurveJsonSettle(r, RenderBody(xs, ps))

SpecRender == InitRender /\ [][NextRender]_vars

\* =================================================================== claims
\* Invocation r ends in this step.
Completes(r) == reqs[r].pc # "done" /\ reqs'[r].pc = "done"

Failures == {"network", "status", "malformed", "missing"}

PricePrefix == "Precio estimado: "

\* The JSON number n/d, written out.
Exactly(n, d) == [type |-> "number", num |-> n, den |-> d]

\* What JSON.stringify(parseFloat(text)) is for each text of the model, from
\* the language's definition of parseFloat and not from the model of it.
ExpectedFloatSlot(text) ==
    CASE text = << >>              -> JsonNull
      [] text = <<"2", ".", "5">>  -> Exactly(5, 2)
      [] text = <<"4", "0">>       -> Exactly(40, 1)
      [] text = <<"-", "3">>       -> Exactly(-3, 1)
      [] text = <<".", "5">>       -> Exactly(1, 2)
      [] text = <<" ", "4">>       -> Exactly(4, 1)
      [] text = <<"7", "x">>       -> Exactly(7, 1)
      [] text = <<"a", "b", "c">>  -> JsonNull
      [] text = <<".">>            -> JsonNull
      [] text = <<"-">>            -> JsonNull

\* The same for JSON.stringify(parseInt(text, 10)).
ExpectedIntSlot(text) ==
    CASE text = << >>              -> JsonNull
      [] text = <<"2", ".", "5">>  -> Exactly(2, 1)
      [] text = <<"4", "0">>       -> Exactly(40, 1)
      [] text = <<"-", "3">>       -> Exactly(-3, 1)
      [] text = <<".", "5">>       -> JsonNull
      [] text = <<" ", "4">>       -> Exactly(4, 1)
      [] text = <<"7", "x">>       -> Exactly(7, 1)
      [] text = <<"a", "b", "c">>  -> JsonNull
      [] text = <<".">>            -> JsonNull
      [] text = <<"-">>            -> JsonNull

PostsOf(r) == {i \in 1..Len(posts) : posts[i].inv = r}

\* C1: whenever an invocation of the submit handler completes, exactly one of
\* the result region and the error region is visible, whatever other requests
\* were in flight or completed meanwhile.
C1_ExactlyOneRegion ==
    [][\A r \in Invocations :
          (Completes(r) /\ reqs[r].kind = "submit")
            => (resultHidden' # errorHidden')]_vars

\* C2: every form submission issues exactly one POST to /predict_price, with
\* no second one after a failure, and its body holds, for each of the eight
\* fields, the number parsed from the field's text as it was at submission;
\* later edits of the form do not change it.
C2_OnePostPerSubmit ==
    \A r \in Invocations :
        reqs[r].kind = "submit" =>
            /\ Cardinality(PostsOf(r)) = 1
            /\ \A i \in PostsOf(r) :
                  /\ posts[i].url = "/predict_price"
                  /\ posts[i].method = "POST"
                  /\ DOMAIN posts[i].body = BaseFields
                  /\ \A k \in BaseFields :
                        posts[i].body[k] = ExpectedFloatSlot(reqs[r].form[k])

\* A submission that failed, and a later one still in flight whose form has
\* been retyped since it was sent.
C2_Witness ==
    \E r1, r2 \in Invocations :
        /\ reqs[r1].kind = "submit" /\ reqs[r1].pc = "done"
        /\ reqs[r1].cause \in Failures
        /\ reqs[r2].kind = "submit" /\ reqs[r2].pc = "fetch"
        /\ reqs[r2].form # fields

\* C3: when a /predict_price request completes with a success response
\* whose predicted_price_formatted is P, the result region is visible, the
\* text is "Precio estimado: " followed by P, and the error region is hidden
\* at that moment.
C3_SuccessShowsOnlyResult ==
    [][\A r \in Invocations :
          (Completes(r) /\ reqs[r].kind = "submit" /\ reqs'[r].cause = "success")
            => /\ resultHidden' = FALSE
               /\ predictedText' = PricePrefix
                    \o reqs'[r].got.props.predicted_price_formatted.s
               /\ errorHidden' = TRUE]_vars

\* C4: when a /predict_price request completes with a non-success status and
\* body B, the error region is visible showing B, or the generic text when B
\* is empty; the result region is hidden at that moment and the predicted
\* price text is not changed by the step.
C4_StatusShowsOnlyError ==
    [][\A r \in Invocations :
          (Completes(r) /\ reqs[r].kind = "submit" /\ reqs'[r].cause = "status")
            => /\ errorHidden' = FALSE
               /\ errorText' = IF reqs'[r].got.s = ""
                               THEN "Error en la llamada a /predict_price"
                               ELSE reqs'[r].got.s
               /\ resultHidden' = TRUE
               /\ predictedText' = predictedText]_vars

\* C5: in both handlers each failure kind (network failure, non-success
\* status, malformed JSON, a success response lacking the expected field)
\* ends in the error outcome: the error region is made visible with a
\* message, and the step shows no result text and draws no chart.
C5_EveryFailureIsAnError ==
    [][\A r \in Invocations :
          (Completes(r) /\ reqs'[r].cause \in Failures)
            => /\ errorHidden' = FALSE
               /\ errorText' # ""
               /\ predictedText' = predictedText
               /\ resultHidden' = resultHidden
               /\ charts' = charts
               /\ priceChart' = priceChart]_vars

\* C6: at most one chart is live (constructed and not destroyed), and every
\* chart ever constructed other than the one in the priceChart slot has been
\* destroyed.
C6_AtMostOneLiveChart ==
    /\ Cardinality({i \in 1..Len(charts) : ~charts[i].destroyed}) <= 1
    /\ \A i \in 1..Len(charts) : i # priceChart => charts[i].destroyed
    /\ priceChart # 0 => ~charts[priceChart].destroyed

\* Two curve responses arrived in the reverse of the order of their clicks:
\* the second chart constructed belongs to the first click.
C6_Witness ==
    /\ Len(charts) >= 2
    /\ charts[1].by = 2 /\ charts[2].by = 1
    /\ priceChart = 2

\* C7: a submit or a curve click with any subset of the numeric fields blank
\* or unparseable raises nothing before the request: the handler issues its
\* one POST, with null in the slot of each unparseable field and the parsed
\* number in every other slot.
C7_UnparseableForwarded ==
    /\ Len(posts) = Len(reqs)
    /\ \A i \in 1..Len(posts) :
          LET body == posts[i].body
              form == reqs[i].form
              base == IF reqs[i].kind = "submit" THEN body ELSE body.base
          IN  /\ posts[i].inv = i
              /\ reqs[i].pc = "fetch"
              /\ \A k \in BaseFields : base[k] = ExpectedFloatSlot(form[k])
              /\ reqs[i].kind = "curve" =>
                    /\ body.min_value = ExpectedFloatSlot(form["min_value"])
                    /\ body.max_value = ExpectedFloatSlot(form["max_value"])
                    /\ body.num_points = ExpectedIntSlot(form["num_points"])

\* Both handlers ran on a form whose med_inc and num_points are blank and
\* whose latitude holds a number.
C7_Witness ==
    /\ fields["med_inc"] = << >>
    /\ fields["num_points"] = << >>
    /\ \E i, j \in 1..Len(posts) :
          /\ reqs[i].kind = "submit"
          /\ posts[i].body["med_inc"] = JsonNull
          /\ posts[i].body["latitude"].type = "number"
          /\ reqs[j].kind = "curve"
          /\ posts[j].body.base["med_inc"] = JsonNull
          /\ posts[j].body.num_points = JsonNull
          /\ posts[j].body.base["latitude"].type = "number"

\* label is x written with exactly two decimals: an optional minus sign,
\* digits, a point, two digits, and a value within half a hundredth of x.
IsTwoDecimalsOf(label, x) ==
    LET neg  == label # << >> /\ Head(label) = "-"
        u    == IF neg THEN Tail(label) ELSE label
        ni   == DigitRun(u)
        rest == Drop(u, ni)
        v    == parseFloat(label)
    IN  /\ ni >= 1
        /\ Len(rest) = 3
        /\ rest[1] = "." /\ IsDigit(rest[2]) /\ IsDigit(rest[3])
        /\ neg <=> x.num < 0
        /\ 200 * Abs(v.num * x.den - x.num * v.den) <= v.den * x.den

\* C8: for every curve response renderChart's labels and data have the
\* lengths and order of x_values and prices, label i being x_values[i] with
\* two decimals and data i being prices[i] divided by 1000; x_values [1,2]
\* and prices [100000,200000] give labels ["1.00","2.00"] and data [100,200].
C8_LabelsAndData ==
    \A c \in 1..Len(charts) :
        LET xs     == charts[c].source.props.x_values.items
            ps     == charts[c].source.props.prices.items
            labels == charts[c].config.labels
            data   == charts[c].config.data
        IN  /\ Len(labels) = Len(xs)
            /\ Len(data) = Len(ps)
            /\ \A i \in 1..Len(xs) : IsTwoDecimalsOf(labels[i], xs[i])
            /\ \A i \in 1..Len(ps) :
                  /\ data[i].den > 0
                  /\ data[i].num * 1000 * ps[i].den = ps[i].num * data[i].den
            /\ (xs = <<Exactly(1, 1), Exactly(2, 1)>>
                  /\ ps = <<Exactly(100000, 1), Exactly(200000, 1)>>)
                 => /\ labels = << <<"1", ".", "0", "0">>, <<"2", ".", "0", "0">> >>
                    /\ data = <<Exactly(100, 1), Exactly(200, 1)>>

\* The chart drawn from x_values [1,2] and prices [100000,200000].
C8_Witness ==
    \E c \in 1..Len(charts) :
        /\ charts[c].source.props.x_values.items = <<Exactly(1, 1), Exactly(2, 1)>>
        /\ charts[c].source.props.prices.items
             = <<Exactly(100000, 1), Exactly(200000, 1)>>
        /\ charts[c].config.labels
             = << <<"1", ".", "0", "0">>, <<"2", ".", "0", "0">> >>
        /\ charts[c].config.data = <<Exactly(100, 1), Exactly(200, 1)>>
        /\ priceChart = c

\* C9: no failure is fatal to the page. In every state, also after failures,
\* submit and curve click can be triggered and each trigger issues its
\* request; every invocation whose promises settle completes; and the step
\* that completes it makes the result region, the error region or a new
\* chart visible.
C9_NoFailureIsFatal ==
    /\ [](Len(reqs) < MaxRequests => (ENABLED Submit /\ ENABLED ClickCurve))
    /\ [][Len(reqs') > Len(reqs)
            => /\ Len(posts') = Len(posts) + 1
               /\ posts'[Len(posts')].inv = Len(reqs')]_vars
    /\ [][\A r \in Invocations :
            Completes(r)
              => \/ reqs[r].kind = "submit" /\ resultHidden' = FALSE
                 \/ errorHidden' = FALSE
                 \/ /\ reqs[r].kind = "curve"
                    /\ Len(charts') = Len(charts) + 1
                    /\ priceChart' = Len(charts')
                    /\ ~charts'[priceChart'].destroyed]_vars
    /\ \A r \in 1..MaxRequests :
          (r \in Invocations) ~> (r \in Invocations /\ reqs[r].pc = "done")

\* A request failed, and a request triggered after that failure (it hid the
\* error again) has succeeded.
C9_Witness ==
    /\ Len(reqs) >= 2
    /\ reqs[1].pc = "done" /\ reqs[1].cause \in Failures
    /\ reqs[2].pc = "done" /\ reqs[2].cause = "success"
    /\ \A r \in Invocations : r > 2 => reqs[r].pc # "done"
    /\ errorHidden = TRUE

\* C10: requests are never cancelled and carry no sequencing token: issuing a
\* request leaves every earlier one as it was, a step settles one request
\* only, and every success response is shown when it completes, whenever it
\* was issued; so an earlier-issued request that completes last is the one
\* displayed.
C10_LastCompletionWins ==
    [][/\ Len(reqs') > Len(reqs) => \A r \in Invocations : reqs'[r] = reqs[r]
       /\ \A r, q \in Invocations :
             (reqs'[r] # reqs[r] /\ q # r) => reqs'[q] = reqs[q]
       /\ \A r \in Invocations :
             (Completes(r) /\ reqs'[r].cause = "success")
               => IF reqs[r].kind = "submit"
                  THEN predictedText' = PricePrefix
                         \o reqs'[r].got.props.predicted_price_formatted.s
                  ELSE /\ priceChart' = Len(charts')
                       /\ charts'[priceChart'].by = r
                       /\ charts'[priceChart'].source = reqs'[r].got]_vars

\* Two submissions both answered with success, and the price displayed is
\* that of the one issued first, which differs from the other's.
C10_Witness ==
    \E r1, r2 \in Invocations :
        /\ r1 < r2
        /\ reqs[r1].kind = "submit" /\ reqs[r2].kind = "submit"
        /\ reqs[r1].pc = "done" /\ reqs[r2].pc = "done"
        /\ reqs[r1].cause = "success" /\ reqs[r2].cause = "success"
        /\ reqs[r1].got # reqs[r2].got
        /\ predictedText = PricePrefix
             \o reqs[r1].got.props.predicted_price_formatted.s

\* The invocation record q ended in its handler's catch block: every failure
\* but a /predict_price success body that is an object without the price,
\* which raises nothing (C5).
Caught(q) ==
    /\ q.pc = "done"
    /\ q.cause \in Failures
    /\ ~(q.kind = "submit" /\ q.cause = "missing" /\ q.got.type = "object")

\* err.message of the error the invocation record q ended with, from how its
\* request ended and the body it was given.
MessageOf(q) ==
    CASE q.cause = "network"   -> "Failed to fetch"
      [] q.cause = "status"    ->
            IF q.got.s # "" THEN q.got.s
            ELSE IF q.kind = "submit" THEN "Error en la llamada a /predict_price"
                 ELSE "Error en la llamada a /feature_curve"
      [] q.cause = "malformed" -> "Unexpected token in JSON"
      [] q.cause = "missing"   -> "Cannot read properties of undefined"

StepOf(kind) ==
    \/ /\ Len(reqs') = Len(reqs) + 1
       /\ reqs'[Len(reqs')].kind = kind
    \/ \E r \in Invocations : reqs[r].kind = kind /\ reqs'[r] # reqs[r]

\* C12: the handlers share only the error region. No step of the curve
\* handler (start, success or failure) changes the result region's
\* visibility or the predicted-price text, and no step of the submit handler
\* changes the priceChart slot or destroys or constructs a chart.
C12_OnlyErrorRegionShared ==
    [][/\ StepOf("curve") => /\ resultHidden' = resultHidden
                             /\ predictedText' = predictedText
       /\ StepOf("submit") => /\ priceChart' = priceChart
                              /\ charts' = charts]_vars

\* A submit and a curve click have both run to a successful end: the
\* result region shows the submit's price and the chart drawn for the click
\* is live in the slot.
C12_Witness ==
    \E r1, r2 \in Invocations :
        /\ reqs[r1].kind = "submit" /\ reqs[r1].pc = "done"
        /\ reqs[r1].cause = "success"
        /\ reqs[r2].kind = "curve" /\ reqs[r2].pc = "done"
        /\ reqs[r2].cause = "success"
        /\ resultHidden = FALSE
        /\ predictedText = PricePrefix
             \o reqs[r1].got.props.predicted_price_formatted.s
        /\ priceChart # 0
        /\ charts[priceChart].by = r2
        /\ ~charts[priceChart].destroyed

\* C13: the curve-click handler mirrors the submit handler's error path. The
\* click hides the error region and issues the invocation's one POST to
\* /feature_curve; a non-success status with body B ends with the error
\* region visible showing B, or "Error en la llamada a /feature_curve" when
\* B is empty, and no call of the renderer; a chart is drawn only from the
\* parsed body of a success response.
C13_CurveErrorPath ==
    /\ [](\A r \in Invocations :
             reqs[r].kind = "curve" =>
                /\ Cardinality(PostsOf(r)) = 1
                /\ \A i \in PostsOf(r) : /\ posts[i].url = "/feature_curve"
                                          /\ posts[i].method = "POST")
    /\ [][(Len(reqs') = Len(reqs) + 1 /\ reqs'[Len(reqs')].kind = "curve")
            => /\ errorHidden' = TRUE
               /\ Len(posts') = Len(posts) + 1
               /\ posts'[Len(posts')].inv = Len(reqs')]_vars
    /\ [][\A r \in Invocations :
            (Completes(r) /\ reqs[r].kind = "curve" /\ reqs'[r].cause = "status")
              => /\ reqs[r].pc = "text"
                 /\ errorHidden' = FALSE
                 /\ errorText' = IF reqs'[r].got.s = ""
                                 THEN "Error en la llamada a /feature_curve"
                                 ELSE reqs'[r].got.s
                 /\ charts' = charts
                 /\ priceChart' = priceChart]_vars
    /\ [][charts' # charts
            => \E r \in Invocations :
                  /\ reqs[r].kind = "curve" /\ reqs[r].pc = "json"
                  /\ Completes(r)
                  /\ reqs'[r].got.type = "object"
                  /\ Len(charts') = Len(charts) + 1
                  /\ charts'[Len(charts')].source = reqs'[r].got]_vars

\* A click was answered with a success response and its chart drawn; a
\* second click was answered with a non-success status and an empty body,
\* and the fallback text is on display beside the first click's chart.
C13_Witness ==
    \E r1, r2 \in Invocations :
        /\ reqs[r1].kind = "curve" /\ reqs[r1].cause = "success"
        /\ reqs[r2].kind = "curve" /\ reqs[r2].cause = "status"
        /\ reqs[r2].got = TextBody("")
        /\ errorHidden = FALSE
        /\ errorText = "Error en la llamada a /feature_curve"
        /\ Len(charts) = 1
        /\ charts[1].by = r1
        /\ priceChart = 1

\* C14: the chart slot changes only on a successful curve render. A curve
\* request that fails (network failure, non-success status, malformed JSON,
\* a response lacking x_values or prices) leaves the priceChart slot as it
\* was and destroys no chart, so a chart drawn before stays live; and every
\* step that changes the slot or a chart completes a curve request with
\* success.
C14_SlotChangesOnlyOnRender ==
    [][/\ \A r \in Invocations :
             (Completes(r) /\ reqs[r].kind = "curve"
                /\ reqs'[r].cause \in Failures)
               => /\ priceChart' = priceChart
                  /\ charts' = charts
       /\ (priceChart' # priceChart \/ charts' # charts)
             => \E r \in Invocations :
                   /\ reqs[r].kind = "curve"
                   /\ Completes(r)
                   /\ reqs'[r].cause = "success"
                   /\ ~renderChartThrows(reqs'[r].got)]_vars

\* A chart was drawn for one click; a later click was answered with a
\* success response that lacks x_values or prices, and the first chart is
\* still live in the slot.
C14_Witness ==
    \E r1, r2 \in Invocations :
        /\ r1 < r2
        /\ reqs[r1].kind = "curve" /\ reqs[r1].cause = "success"
        /\ reqs[r2].kind = "curve" /\ reqs[r2].cause = "missing"
        /\ reqs[r2].got.type = "object"
        /\ errorHidden = FALSE
        /\ errorText = MessageOf(reqs[r2])
        /\ priceChart = 1
        /\ Len(charts) = 1
        /\ charts[1].by = r1
        /\ ~charts[1].destroyed

\* C15: the submit handler hides the result region and the error region
\* before it issues its request, whatever was shown before: the step of a
\* submission ends with both hidden and its POST issued, and while both are
\* hidden only the completion of an in-flight request makes either visible
\* again; so neither is visible from a submission until the first
\* completion.
C15_HiddenUntilCompletion ==
    [][/\ (Len(reqs') = Len(reqs) + 1 /\ reqs'[Len(reqs')].kind = "submit")
             => /\ errorHidden' = TRUE
                /\ resultHidden' = TRUE
                /\ Len(posts') = Len(posts) + 1
                /\ posts'[Len(posts')].inv = Len(reqs')
                /\ posts'[Len(posts')].url = "/predict_price"
       /\ (errorHidden /\ resultHidden /\ ~(\E r \in Invocations : Completes(r)))
             => (errorHidden' /\ resultHidden')]_vars

\* A first submission was answered and its price shown; a second submission
\* has since been made and is in flight, and neither region is visible.
C15_Witness ==
    /\ Len(reqs) = 2
    /\ reqs[1].kind = "submit" /\ reqs[1].pc = "done"
    /\ reqs[1].cause = "success"
    /\ predictedText = PricePrefix
         \o reqs[1].got.props.predicted_price_formatted.s
    /\ reqs[2].kind = "submit" /\ reqs[2].pc # "done"
    /\ resultHidden = TRUE
    /\ errorHidden = TRUE

====
